---------------------------- MODULE Spec2Model ----------------------------
(***************************************************************************)
(* A model of ocr-pdf.py: the page-range parser, the Markdown stripper,    *)
(* the converter construction and the linear pipeline of main.             *)
(*                                                                         *)
(* Strings are sequences of characters.  The backend (docling)             *)
(* and the file system are the environment: the backend is modelled by the *)
(* capabilities the script probes for, the file system by the files the    *)
(* script writes.                                                          *)
(***************************************************************************)
EXTENDS Integers, Sequences, FiniteSets, TLC

VARIABLES
    pages,          \* the page-range expression (args.pages)
    page_range,     \* what _parse_page_range did with it
    markdown,       \* the Markdown text (main's local, _markdown_to_text's argument)
    text,           \* the plain text (main's local, _markdown_to_text's result)
    stripped,       \* SpecMd: whether _markdown_to_text has returned
    pc,             \* main: the line main is at
    args,           \* main: the other arguments and whether the input exists
    docling,        \* main: what the installed backend supports
    out_dir_created,\* main: whether out_dir.mkdir has run
    converter,      \* main: what _build_converter did
    convert_calls,  \* main: how many times converter.convert was called
    document,       \* main: the backend's document
    exported_pdf,   \* main: the value handed to _write_pdf
    pdf_path,       \* main: the local pdf_path (None after a failed _write_pdf)
    files,          \* main: the three output files
    printed,        \* main: the lines printed
    exit            \* main: how the run ended

parseVars == <<pages, page_range>>

mdVars == <<markdown, text, stripped>>

mainVars == <<pc, args, docling, out_dir_created, converter, convert_calls,
              document, exported_pdf, pdf_path, files, printed, exit>>

vars == <<parseVars, mdVars, mainVars>>

---------------------------------------------------------------------------
(* Bounds *)

\* Longest page-range expression tried.
MaxPagesLen == 4

\* Longest Markdown text tried.
MaxMarkdownLen == 6

\* Largest absolute value of a written page number in the claims' forms.
MaxPage == 15

---------------------------------------------------------------------------
(* Strings *)

Whitespace == {" ", "\n"}

Digits == <<"0", "1", "2", "3", "4", "5", "6", "7", "8", "9">>

StringsUpTo(alphabet, n) == UNION {[1..k -> alphabet] : k \in 0..n}

\* str.lstrip() / str.rstrip() / str.strip()
RECURSIVE LStrip(_)
LStrip(s) == IF s # <<>> /\ Head(s) \in Whitespace THEN LStrip(Tail(s)) ELSE s

RECURSIVE RStrip(_)
RStrip(s) ==
    IF s # <<>> /\ s[Len(s)] \in Whitespace
    THEN RStrip(SubSeq(s, 1, Len(s) - 1))
    ELSE s

Strip(s) == RStrip(LStrip(s))

\* str.lower(), on the letters of the alphabets used here
LowerChar(c) == CASE c = "A" -> "a" [] c = "L" -> "l" [] OTHER -> c

Lower(s) == [i \in 1..Len(s) |-> LowerChar(s[i])]

\* str.find(c) + 1: the first index of c in s, 0 when there is none
Find(s, c) ==
    IF \E i \in 1..Len(s) : s[i] = c
    THEN CHOOSE i \in 1..Len(s) : s[i] = c /\ \A j \in 1..(i - 1) : s[j] # c
    ELSE 0

DigitValue(c) == (CHOOSE d \in 1..10 : Digits[d] = c) - 1

IsDigit(c) == \E d \in 1..10 : Digits[d] = c

RECURSIVE DigitsValue(_)
DigitsValue(s) ==
    IF s = <<>> THEN 0
    ELSE 10 * DigitsValue(SubSeq(s, 1, Len(s) - 1)) + DigitValue(s[Len(s)])

\* int(s): surrounding whitespace ignored, an optional sign, then one or more
\* decimal digits; anything else raises ValueError (ok = FALSE).
int(s) ==
    LET t == Strip(s)
        signed == t # <<>> /\ t[1] \in {"+", "-"}
        body == IF signed THEN Tail(t) ELSE t
    IN  IF body # <<>> /\ \A i \in 1..Len(body) : IsDigit(body[i])
        THEN [ok |-> TRUE,
              val |-> IF signed /\ t[1] = "-"
                      THEN 0 - DigitsValue(body) ELSE DigitsValue(body)]
        ELSE [ok |-> FALSE, val |-> 0]

---------------------------------------------------------------------------
(* The state of main, before it runs *)

NoFile == [written |-> FALSE, content |-> <<>>]

NoDocument ==
    [wrapped |-> FALSE, has_markdown |-> FALSE, markdown |-> <<>>,
     has_text |-> FALSE, text |-> <<>>, has_pdf |-> FALSE, pdf |-> "None"]

NoConverter == [exc |-> "NotCalled", pipeline_options |-> "None",
                ocr_lang |-> "None", options_tried |-> FALSE]

NoArgs == [input_exists |-> FALSE, lang |-> "pt", ocr |-> TRUE]

NoBackend ==
    [imports |-> FALSE, options_build |-> FALSE, has_ocr_options |-> FALSE,
     ocr_options_build |-> FALSE, accepts_pipeline_options |-> FALSE]

MainIdle ==
    /\ pc = "idle"
    /\ args = NoArgs
    /\ docling = NoBackend
    /\ out_dir_created = FALSE
    /\ converter = NoConverter
    /\ convert_calls = 0
    /\ document = NoDocument
    /\ exported_pdf = "None"
    /\ pdf_path = "None"
    /\ files = [f \in {"md", "txt", "pdf"} |-> NoFile]
    /\ printed = <<>>
    /\ exit = "running"

---------------------------------------------------------------------------
(* _parse_page_range *)

\* sys.maxsize is 2^63 - 1; the model checker's integers are 32 bits wide, so
\* the sentinel is the largest of those.  It is above every number a
\* bounded expression can denote, which is all the code's comparisons need.
sys_maxsize == 2147483647

Returned(start, end) == [exc |-> "None", ret |-> <<start, end>>]

Raised(e) == [exc |-> e, ret |-> <<>>]

\* CheckRange with the start check off by one (start < 0).
CheckRangeZeroBased(start, has_end, end) ==
    IF start < 0 THEN Raised("ValueError")
    ELSE IF has_end /\ end < start THEN Raised("ValueError")
    ELSE IF ~has_end THEN Returned(start, sys_maxsize)
    ELSE Returned(start, end)

\* Lines 66-72: the checks on a start and an end (has_end = FALSE: end is None).
CheckRange(start, has_end, end) ==
    IF start < 1 THEN Raised("ValueError")
    ELSE IF has_end /\ end < start THEN Raised("ValueError")
    ELSE IF ~has_end THEN Returned(start, sys_maxsize)
    ELSE Returned(start, end)

\* SplitRange with an empty end read as the start itself ("5-" as page 5).
SplitRangeClosedEnd(p) ==
    LET i == Find(p, "-")
        start_str == Strip(SubSeq(p, 1, i - 1))
        end_str == Strip(SubSeq(p, i + 1, Len(p)))
        start == IF start_str # <<>> THEN int(start_str) ELSE [ok |-> TRUE, val |-> 1]
        end == IF end_str # <<>> THEN int(end_str) ELSE start
    IN  IF ~start.ok \/ ~end.ok THEN Raised("ValueError")
        ELSE CheckRange(start.val, TRUE, end.val)

\* Lines 59-62: pages.split("-", 1), an empty start is 1, an empty end is None.
SplitRange(p) ==
    LET i == Find(p, "-")
        start_str == Strip(SubSeq(p, 1, i - 1))
        end_str == Strip(SubSeq(p, i + 1, Len(p)))
        start == IF start_str # <<>> THEN int(start_str) ELSE [ok |-> TRUE, val |-> 1]
        end == IF end_str # <<>> THEN int(end_str) ELSE [ok |-> TRUE, val |-> 0]
    IN  IF ~start.ok \/ ~end.ok THEN Raised("ValueError")
        ELSE CheckRange(start.val, end_str # <<>>, end.val)

\* SinglePage without the range checks (page 0 accepted).
SinglePageUnchecked(p) ==
    LET start == int(Strip(p))
    IN  IF ~start.ok THEN Raised("ValueError")
        ELSE Returned(start.val, start.val)

\* Lines 63-65: a single page.
SinglePage(p) ==
    LET start == int(Strip(p))
    IN  IF ~start.ok THEN Raised("ValueError")
        ELSE CheckRange(start.val, TRUE, start.val)

_parse_page_range(p) ==
    IF Lower(Strip(p)) \in {<<"a", "l", "l">>, <<"*">>}
    THEN Returned(1, sys_maxsize)
    ELSE IF Find(p, "-") # 0 THEN SplitRange(p)
    ELSE SinglePage(p)

PagesAlphabet == {"0", "1", "5", "-", "+", " ", "a", "l", "A", "L", "*"}

NotCalled == [exc |-> "NotCalled", ret |-> <<>>]

InitParse ==
    /\ pages \in StringsUpTo(PagesAlphabet, MaxPagesLen)
    /\ page_range = NotCalled
    /\ markdown = <<>>
    /\ text = <<>>
    /\ stripped = FALSE
    /\ MainIdle

ParsePageRange ==
    /\ page_range = NotCalled
    /\ page_range' = _parse_page_range(pages)
    /\ UNCHANGED <<pages, mdVars, mainVars>>

NextParse == ParsePageRange

SpecParse == InitParse /\ [][NextParse]_vars

---------------------------------------------------------------------------
(* _markdown_to_text: five re.sub passes, left to right, then strip() *)

\* The backtick character (a TLA+ string cannot hold one).
Backtick == "bt"

Min(S) == CHOOSE x \in S : \A y \in S : x <= y

HasNewline(s, from, to) == \E k \in from..to : s[k] = "\n"

\* Three backticks at i.
FenceAt(s, i) == i + 2 <= Len(s) /\ s[i] = Backtick /\ s[i + 1] = Backtick /\ s[i + 2] = Backtick

\* Line 12, from index i on: three backticks, the shortest stretch of any
\* characters (re.S), three backticks; the match is dropped.
RECURSIVE RemoveFences(_, _)
RemoveFences(s, i) ==
    IF i > Len(s) THEN <<>>
    ELSE LET closing == {j \in (i + 3)..Len(s) : FenceAt(s, j)}
         IN  IF FenceAt(s, i) /\ closing # {}
             THEN RemoveFences(s, Min(closing) + 3)
             ELSE <<s[i]>> \o RemoveFences(s, i + 1)

\* Line 13, from index i on: a backtick, one or more characters that are not
\* backticks, a backtick; the match is replaced by what is between them.
RECURSIVE UnwrapInlineCode(_, _)
UnwrapInlineCode(s, i) ==
    IF i > Len(s) THEN <<>>
    ELSE LET closing == {j \in (i + 2)..Len(s) :
                            s[j] = Backtick /\ \A k \in (i + 1)..(j - 1) : s[k] # Backtick}
         IN  IF s[i] = Backtick /\ closing # {}
             THEN SubSeq(s, i + 1, Min(closing) - 1)
                      \o UnwrapInlineCode(s, Min(closing) + 1)
             ELSE <<s[i]>> \o UnwrapInlineCode(s, i + 1)

\* The first index from i on whose character is not in set (Len(s) + 1 if none).
RECURSIVE SkipWhile(_, _, _)
SkipWhile(s, i, set) ==
    IF i <= Len(s) /\ s[i] \in set THEN SkipWhile(s, i + 1, set) ELSE i

\* ^ under re.M
LineStart(s, i) == i = 1 \/ s[i - 1] = "\n"

\* Line 14, from index i on: at a line start, one or more #, then whitespace.
RECURSIVE RemoveHeadings(_, _)
RemoveHeadings(s, i) ==
    IF i > Len(s) THEN <<>>
    ELSE IF LineStart(s, i) /\ s[i] = "#"
         THEN RemoveHeadings(s, SkipWhile(s, SkipWhile(s, i, {"#"}), Whitespace))
         ELSE <<s[i]>> \o RemoveHeadings(s, i + 1)

Emphasis == {"*", "_"}

\* Line 15, from index i on: one or two of * and _ are dropped.
RECURSIVE RemoveEmphasis(_, _)
RemoveEmphasis(s, i) ==
    IF i > Len(s) THEN <<>>
    ELSE IF s[i] \in Emphasis
         THEN RemoveEmphasis(s, IF i + 1 <= Len(s) /\ s[i + 1] \in Emphasis
                                THEN i + 2 ELSE i + 1)
         ELSE <<s[i]>> \o RemoveEmphasis(s, i + 1)

\* Line 16: the matches of [text](url) that start at i: <<j, k>> with "](" at
\* j and ")" at k, and no newline in either group ("." without re.S).
LinkMatches(s, i) ==
    {jk \in ((i + 1)..Len(s)) \X ((i + 3)..Len(s)) :
        /\ s[i] = "["
        /\ s[jk[1]] = "]"
        /\ jk[1] + 1 <= Len(s) /\ s[jk[1] + 1] = "("
        /\ jk[2] >= jk[1] + 2 /\ s[jk[2]] = ")"
        /\ ~HasNewline(s, i + 1, jk[1] - 1)
        /\ ~HasNewline(s, jk[1] + 2, jk[2] - 1)}

\* The match the two lazy groups settle on: the shortest text, then the
\* shortest url.
LinkMatch(s, i) ==
    LET j == Min({jk[1] : jk \in LinkMatches(s, i)})
    IN  <<j, Min({jk[2] : jk \in {m \in LinkMatches(s, i) : m[1] = j}})>>

\* Line 16, from index i on: each match is replaced by its text.
RECURSIVE ReplaceLinks(_, _)
ReplaceLinks(s, i) ==
    IF i > Len(s) THEN <<>>
    ELSE IF LinkMatches(s, i) # {}
         THEN SubSeq(s, i + 1, LinkMatch(s, i)[1] - 1)
                  \o ReplaceLinks(s, LinkMatch(s, i)[2] + 1)
         ELSE <<s[i]>> \o ReplaceLinks(s, i + 1)

_markdown_to_text(m) ==
    Strip(ReplaceLinks(RemoveEmphasis(RemoveHeadings(
        UnwrapInlineCode(RemoveFences(m, 1), 1), 1), 1), 1))

MarkdownAlphabet == {Backtick, "#", "*", "[", "]", "(", ")", "a", "\n"}

InitMd ==
    /\ markdown \in StringsUpTo(MarkdownAlphabet, MaxMarkdownLen)
    /\ text = <<>>
    /\ stripped = FALSE
    /\ pages = <<>>
    /\ page_range = NotCalled
    /\ MainIdle

MarkdownToText ==
    /\ ~stripped
    /\ text' = _markdown_to_text(markdown)
    /\ stripped' = TRUE
    /\ UNCHANGED <<parseVars, markdown, mainVars>>

NextMd == MarkdownToText

SpecMd == InitMd /\ [][NextMd]_vars

---------------------------------------------------------------------------
(* _build_converter *)

\* Lines 21-31: the pipeline options _build_converter ends up with.  tried:
\* whether the options modules were asked for at all.
PipelineOptions(lang, enable_ocr, backend) ==
    IF ~enable_ocr
    THEN [pipeline_options |-> "None", ocr_lang |-> "None", options_tried |-> FALSE]
    ELSE IF ~backend.imports \/ ~backend.options_build
    THEN [pipeline_options |-> "None", ocr_lang |-> "None", options_tried |-> TRUE]
    ELSE IF ~backend.has_ocr_options
    THEN [pipeline_options |-> "PdfPipelineOptions", ocr_lang |-> "None",
          options_tried |-> TRUE]
    ELSE IF ~backend.ocr_options_build
    THEN [pipeline_options |-> "None", ocr_lang |-> "None", options_tried |-> TRUE]
    ELSE [pipeline_options |-> "PdfPipelineOptions", ocr_lang |-> lang,
          options_tried |-> TRUE]

\* _build_converter with the TypeError of line 35 left uncaught.
_build_converter_uncaught(lang, enable_ocr, backend) ==
    LET po == PipelineOptions(lang, enable_ocr, backend)
    IN  IF po.pipeline_options # "None" /\ ~backend.accepts_pipeline_options
        THEN [exc |-> "TypeError", pipeline_options |-> "None",
              ocr_lang |-> "None", options_tried |-> po.options_tried]
        ELSE [exc |-> "None"] @@ po

\* Lines 20-38.  The converter that is returned: the pipeline options it was
\* constructed with ("None": DocumentConverter()), and their OCR language.
_build_converter(lang, enable_ocr, backend) ==
    LET po == PipelineOptions(lang, enable_ocr, backend)
    IN  IF po.pipeline_options # "None" /\ ~backend.accepts_pipeline_options
        THEN [exc |-> "None", pipeline_options |-> "None",
              ocr_lang |-> "None", options_tried |-> po.options_tried]
        ELSE [exc |-> "None"] @@ po

---------------------------------------------------------------------------
(* _write_pdf *)

PdfShapes == {"None", "bytes", "bytearray", "str", "readable", "other"}

\* What ends up in the output file: the bytes themselves, a copy of the
\* file at the path, or what the stream's read() gives.
BytesData == <<"bytes">>
CopiedData == <<"copy">>
StreamData == <<"read">>

\* _write_pdf with the readable-stream case (lines 50-52) missing.
_write_pdf_no_stream(shape, file) ==
    IF shape = "None" THEN [ret |-> FALSE, file |-> file]
    ELSE IF shape \in {"bytes", "bytearray"}
    THEN [ret |-> TRUE, file |-> [written |-> TRUE, content |-> BytesData]]
    ELSE IF shape = "str"
    THEN [ret |-> TRUE, file |-> [written |-> TRUE, content |-> CopiedData]]
    ELSE [ret |-> FALSE, file |-> file]

\* Lines 41-53: the value returned and the output file afterwards.
_write_pdf(shape, file) ==
    IF shape = "None" THEN [ret |-> FALSE, file |-> file]
    ELSE IF shape \in {"bytes", "bytearray"}
    THEN [ret |-> TRUE, file |-> [written |-> TRUE, content |-> BytesData]]
    ELSE IF shape = "str"
    THEN [ret |-> TRUE, file |-> [written |-> TRUE, content |-> CopiedData]]
    ELSE IF shape = "readable"
    THEN [ret |-> TRUE, file |-> [written |-> TRUE, content |-> StreamData]]
    ELSE [ret |-> FALSE, file |-> file]

---------------------------------------------------------------------------
(* main *)

\* --pages values tried: the default, the spec's examples, and invalid ones.
PagesArgs ==
    {<<"1", "-", "1", "0">>, <<"5", "-">>, <<"a", "l", "l">>,
     <<"0">>, <<"5", "-", "1">>, <<"x">>}

Langs == {"pt", "en"}

Backends ==
    [imports : BOOLEAN, options_build : BOOLEAN, has_ocr_options : BOOLEAN,
     ocr_options_build : BOOLEAN, accepts_pipeline_options : BOOLEAN]

\* Markdown the backend may export, and the text its own export_to_text gives.
MarkdownSamples ==
    {<<"#", " ", "a">>, <<"*", "a", "*">>, <<"[", "a", "]", "(", "b", ")">>}

NativeText == <<"a", " ", "b">>

\* The documents convert may produce: each export method present or absent.
Documents ==
    {d \in [wrapped : BOOLEAN,
            has_markdown : BOOLEAN, markdown : MarkdownSamples \cup {<<>>},
            has_text : BOOLEAN, text : {NativeText, <<>>},
            has_pdf : BOOLEAN, pdf : PdfShapes] :
        /\ d.has_markdown <=> d.markdown # <<>>
        /\ d.has_text <=> d.text # <<>>
        /\ ~d.has_pdf => d.pdf = "None"}

MarkdownLine == "Markdown: <stem>.md"
TextLine == "Text: <stem>.txt"
PdfLine == "Searchable PDF: <stem>.searchable.pdf"
NoPdfLine == "Searchable PDF: not available in this Docling version"

\* Line 110: the arguments are parsed; the environment is what it is.
Init ==
    /\ pc = "check_input"
    /\ args \in [input_exists : BOOLEAN, lang : Langs, ocr : BOOLEAN]
    /\ pages \in PagesArgs
    /\ docling \in Backends
    /\ page_range = NotCalled
    /\ markdown = <<>>
    /\ text = <<>>
    /\ stripped = FALSE
    /\ out_dir_created = FALSE
    /\ converter = NoConverter
    /\ convert_calls = 0
    /\ document = NoDocument
    /\ exported_pdf = "None"
    /\ pdf_path = "None"
    /\ files = [f \in {"md", "txt", "pdf"} |-> NoFile]
    /\ printed = <<>>
    /\ exit = "running"

Raise(e) == pc' = "raised" /\ exit' = e

\* CheckInput running into out_dir.mkdir even when the input is missing.
CheckInputLate ==
    /\ pc = "check_input"
    /\ IF args.input_exists
       THEN pc' = "mkdir" /\ UNCHANGED <<exit, out_dir_created>>
       ELSE Raise("FileNotFoundError") /\ out_dir_created' = TRUE
    /\ UNCHANGED <<parseVars, mdVars, args, docling, converter,
                   convert_calls, document, exported_pdf, pdf_path, files, printed>>

\* Lines 112-114.
CheckInput ==
    /\ pc = "check_input"
    /\ IF args.input_exists
       THEN pc' = "mkdir" /\ UNCHANGED exit
       ELSE Raise("FileNotFoundError")
    /\ UNCHANGED <<parseVars, mdVars, args, docling, out_dir_created, converter,
                   convert_calls, document, exported_pdf, pdf_path, files, printed>>

\* Lines 116-122.
MakeOutDir ==
    /\ pc = "mkdir"
    /\ out_dir_created' = TRUE
    /\ pc' = "build_converter"
    /\ UNCHANGED <<parseVars, mdVars, args, docling, converter, convert_calls,
                   document, exported_pdf, pdf_path, files, printed, exit>>

\* Line 124.
BuildConverter ==
    /\ pc = "build_converter"
    /\ converter' = _build_converter(args.lang, args.ocr, docling)
    /\ IF converter'.exc = "None"
       THEN pc' = "parse_pages" /\ UNCHANGED exit
       ELSE Raise(converter'.exc)
    /\ UNCHANGED <<parseVars, mdVars, args, docling, out_dir_created,
                   convert_calls, document, exported_pdf, pdf_path, files, printed>>

\* ParsePages going on to the conversion whatever the parser did.
ParsePagesUnchecked ==
    /\ pc = "parse_pages"
    /\ page_range' = _parse_page_range(pages)
    /\ pc' = "convert"
    /\ UNCHANGED <<pages, mdVars, args, docling, out_dir_created, converter,
                   convert_calls, document, exported_pdf, pdf_path, files,
                   printed, exit>>

\* Line 125.
ParsePages ==
    /\ pc = "parse_pages"
    /\ page_range' = _parse_page_range(pages)
    /\ IF page_range'.exc = "None"
       THEN pc' = "convert" /\ UNCHANGED exit
       ELSE Raise(page_range'.exc)
    /\ UNCHANGED <<pages, mdVars, args, docling, out_dir_created, converter,
                   convert_calls, document, exported_pdf, pdf_path, files, printed>>

\* Lines 126-127: the backend converts and hands back a document, wrapped
\* in a result or not.
Convert ==
    /\ pc = "convert"
    /\ convert_calls' = convert_calls + 1
    /\ \E d \in Documents : document' = d
    /\ pc' = "export_markdown"
    /\ UNCHANGED <<parseVars, mdVars, args, docling, out_dir_created, converter,
                   exported_pdf, pdf_path, files, printed, exit>>

\* Lines 129-130: export_to_markdown is called whether or not it is there.
ExportMarkdown ==
    /\ pc = "export_markdown"
    /\ IF document.has_markdown
       THEN /\ markdown' = document.markdown
            /\ files' = [files EXCEPT !["md"] =
                            [written |-> TRUE, content |-> markdown']]
            /\ pc' = "export_text"
            /\ UNCHANGED exit
       ELSE /\ Raise("AttributeError")
            /\ UNCHANGED <<markdown, files>>
    /\ UNCHANGED <<parseVars, text, stripped, args, docling, out_dir_created,
                   converter, convert_calls, document, exported_pdf, pdf_path,
                   printed>>

\* ExportText writing the Markdown itself when export_to_text is missing.
ExportTextUnstripped ==
    /\ pc = "export_text"
    /\ text' = IF document.has_text THEN document.text ELSE markdown
    /\ stripped' = ~document.has_text
    /\ files' = [files EXCEPT !["txt"] = [written |-> TRUE, content |-> text']]
    /\ pc' = "export_pdf"
    /\ UNCHANGED <<parseVars, markdown, args, docling, out_dir_created, converter,
                   convert_calls, document, exported_pdf, pdf_path, printed, exit>>

\* Lines 132-136.
ExportText ==
    /\ pc = "export_text"
    /\ text' = IF document.has_text THEN document.text
               ELSE _markdown_to_text(markdown)
    /\ stripped' = ~document.has_text
    /\ files' = [files EXCEPT !["txt"] = [written |-> TRUE, content |-> text']]
    /\ pc' = "export_pdf"
    /\ UNCHANGED <<parseVars, markdown, args, docling, out_dir_created, converter,
                   convert_calls, document, exported_pdf, pdf_path, printed, exit>>

\* Lines 138-142.
ExportPdf ==
    /\ pc = "export_pdf"
    /\ exported_pdf' = IF document.has_pdf THEN document.pdf ELSE "None"
    /\ LET w == _write_pdf(exported_pdf', files["pdf"])
       IN  /\ files' = [files EXCEPT !["pdf"] = w.file]
           /\ pdf_path' = IF w.ret THEN "<stem>.searchable.pdf" ELSE "None"
    /\ pc' = "print"
    /\ UNCHANGED <<parseVars, mdVars, args, docling, out_dir_created, converter,
                   convert_calls, document, printed, exit>>

\* Lines 144-150.
PrintSummary ==
    /\ pc = "print"
    /\ printed' = <<MarkdownLine, TextLine,
                    IF pdf_path # "None" THEN PdfLine ELSE NoPdfLine>>
    /\ exit' = "0"
    /\ pc' = "done"
    /\ UNCHANGED <<parseVars, mdVars, args, docling, out_dir_created, converter,
                   convert_calls, document, exported_pdf, pdf_path, files>>

Next ==
    \/ CheckInput
    \/ MakeOutDir
    \/ BuildConverter
    \/ ParsePages
    \/ Convert
    \/ ExportMarkdown
    \/ ExportText
    \/ ExportPdf
    \/ PrintSummary

Spec == Init /\ [][Next]_vars

---------------------------------------------------------------------------
(* Page-range expressions as they are written: str(n) of an integer n *)

RECURSIVE NatToStr(_)
NatToStr(n) ==
    IF n < 10 THEN <<Digits[n + 1]>>
    ELSE NatToStr(n \div 10) \o <<Digits[(n % 10) + 1]>>

ToStr(n) == IF n < 0 THEN <<"-">> \o NatToStr(0 - n) ELSE NatToStr(n)

\* The integers up to MaxPage that the alphabet's digits can write.
Writable(n) == \A i \in 1..Len(NatToStr(n)) : NatToStr(n)[i] \in PagesAlphabet

Pages == {n \in 1..MaxPage : Writable(n)}

WrittenInts == Pages \cup {0} \cup {0 - n : n \in Pages}

\* The three written forms: N, "A-B" and "A-".
Single(n) == ToStr(n)

Closed(a, b) == ToStr(a) \o <<"-">> \o ToStr(b)

Open(a) == ToStr(a) \o <<"-">>

Blanks == {<<>>, <<" ">>}

\* "all" in any letter case, or "*", with blanks around it
WholeDocumentForms ==
    {l \o w \o r :
        l \in Blanks, r \in Blanks,
        w \in {<<a, b, c>> : a \in {"a", "A"}, b \in {"l", "L"}, c \in {"l", "L"}}
               \cup {<<"*">>}}

Parsed == page_range # NotCalled

(* C1: every valid page-range expression parses to the documented pair:     *)
(* "all" or "*" (any case, blanks around) to (1, unbounded), a single       *)
(* N >= 1 to (N, N), "A-B" with 1 <= A <= B to (A, B), and "A-" with        *)
(* A >= 1 to (A, unbounded).                                                *)
C1_ValidFormsParse ==
    Parsed =>
        /\ pages \in WholeDocumentForms => page_range = Returned(1, sys_maxsize)
        /\ \A n \in Pages : pages = Single(n) => page_range = Returned(n, n)
        /\ \A a \in Pages : \A b \in {c \in Pages : c >= a} :
               pages = Closed(a, b) => page_range = Returned(a, b)
        /\ \A a \in Pages :
               pages = Open(a) => page_range = Returned(a, sys_maxsize)

\* "5-" has been parsed, to (5, unbounded).
C1_Witness == pages = <<"5", "-">> /\ page_range = Returned(5, sys_maxsize)

(* C2, as claimed: every expression written N, "A-B" or "A-" (any integers) *)
(* whose written start is < 1 or whose written end is < the start raises;   *)
(* in particular a single N < 1 is always rejected.                         *)
C2_InvalidFormsRaise ==
    Parsed =>
        /\ \A n \in WrittenInts :
               pages = Single(n) /\ n < 1 => page_range.exc = "ValueError"
        /\ \A a \in WrittenInts : \A b \in WrittenInts :
               pages = Closed(a, b) /\ (a < 1 \/ b < a)
                   => page_range.exc = "ValueError"
        /\ \A a \in WrittenInts :
               pages = Open(a) /\ a < 1 => page_range.exc = "ValueError"

(* C2, amended: as claimed for "A-B", "A-" and the single integer 0; a      *)
(* single negative integer -K is read as a range with an empty start and    *)
(* returns (1, K).                                                          *)
C2_InvalidFormsRaiseExceptMinusK ==
    Parsed =>
        /\ pages = Single(0) => page_range.exc = "ValueError"
        /\ \A k \in Pages : pages = Single(0 - k) => page_range = Returned(1, k)
        /\ \A a \in WrittenInts : \A b \in WrittenInts :
               pages = Closed(a, b) /\ (a < 1 \/ b < a)
                   => page_range.exc = "ValueError"
        /\ \A a \in WrittenInts :
               pages = Open(a) /\ a < 1 => page_range.exc = "ValueError"

\* "5-1" (end < start) has been parsed, and raised.
C2_Witness == pages = <<"5", "-", "1">> /\ page_range.exc = "ValueError"

(* C3: every pair _parse_page_range returns, for any input at all, has      *)
(* start >= 1 and, when the end is not the unbounded sentinel, end >= start.*)
C3_ReturnedRangeInvariant ==
    page_range.exc = "None" =>
        /\ page_range.ret[1] >= 1
        /\ page_range.ret[2] # sys_maxsize => page_range.ret[2] >= page_range.ret[1]

\* "-5", a form outside the documented grammar, has been parsed to (1, 5).
C3_Witness == pages = <<"-", "5">> /\ page_range = Returned(1, 5)


---------------------------------------------------------------------------
(* The Markdown stripper's output *)

NoFencedBlock(t) ==
    ~\E i \in 1..Len(t) : \E j \in (i + 3)..Len(t) : FenceAt(t, i) /\ FenceAt(t, j)

NoInlineCode(t) ==
    ~\E i \in 1..Len(t) : \E j \in (i + 2)..Len(t) :
        t[i] = Backtick /\ t[j] = Backtick /\ \A k \in (i + 1)..(j - 1) : t[k] # Backtick

NoHeadingMarker(t) == ~\E i \in 1..Len(t) : LineStart(t, i) /\ t[i] = "#"

NoEmphasisMarker(t) == \A i \in 1..Len(t) : t[i] \notin Emphasis

NoLinkSyntax(t) == \A i \in 1..Len(t) : LinkMatches(t, i) = {}

(* C6: the output of _markdown_to_text holds no fenced code block, no       *)
(* inline-code backtick pair, no line-leading heading marker, no emphasis   *)
(* marker and no link syntax.                                               *)
C6_OutputHasNoMarkdown ==
    stripped =>
        /\ NoFencedBlock(text)
        /\ NoInlineCode(text)
        /\ NoHeadingMarker(text)
        /\ NoEmphasisMarker(text)
        /\ NoLinkSyntax(text)

---------------------------------------------------------------------------
(* main's runs *)

NoOutputFile == \A f \in {"md", "txt", "pdf"} : ~files[f].written

BeforeConversion ==
    pc \in {"check_input", "mkdir", "build_converter", "parse_pages", "convert"}

(* C4: with a document that exports Markdown but neither text nor PDF, a    *)
(* run with an existing input and a valid page range goes on to the end:    *)
(* the Markdown file holds the exported Markdown, the text file holds       *)
(* _markdown_to_text of it, no PDF file is written, the summary says the    *)
(* searchable PDF is not available, and the exit code is 0.                 *)
C4_MarkdownOnlyDocument ==
    convert_calls = 1 /\ document.has_markdown /\ ~document.has_text /\ ~document.has_pdf
    =>  /\ pc # "raised"
        /\ pc \in {"export_markdown", "export_text", "export_pdf", "print", "done"}
        /\ pc = "done" =>
            /\ files["md"] = [written |-> TRUE, content |-> document.markdown]
            /\ files["txt"] = [written |-> TRUE,
                               content |-> _markdown_to_text(document.markdown)]
            /\ ~files["pdf"].written
            /\ printed = <<MarkdownLine, TextLine, NoPdfLine>>
            /\ exit = "0"

\* Such a run has ended: "# a" was exported, "a" is in the text file.
C4_Witness ==
    /\ pc = "done"
    /\ document.has_markdown /\ ~document.has_text /\ ~document.has_pdf
    /\ document.markdown = <<"#", " ", "a">>
    /\ files["txt"].content = <<"a">>

(* C5: whatever capabilities the backend has or lacks, a run with an        *)
(* existing input and a valid page range never ends with an error.          *)
C5_NoCapabilityCrash ==
    args.input_exists /\ page_range.exc = "None" => exit \in {"running", "0"}

(* C7: when the input path does not exist, main raises the missing-input    *)
(* error before anything else: no output directory, no converter, no        *)
(* conversion, no output file.                                              *)
C7_MissingInputStopsFirst ==
    ~args.input_exists =>
        /\ pc \in {"check_input", "raised"}
        /\ pc = "raised" => exit = "FileNotFoundError"
        /\ ~out_dir_created
        /\ converter = NoConverter
        /\ page_range = NotCalled
        /\ convert_calls = 0
        /\ NoOutputFile
        /\ printed = <<>>

\* A run has ended on the missing input.
C7_Witness == ~args.input_exists /\ exit = "FileNotFoundError"

(* C8: the conversion is called at most once, only after the input was      *)
(* validated and the page range parsed; no output file is written before    *)
(* it; a run that fails on the page range converts and writes nothing.      *)
C8_ConversionOrder ==
    /\ convert_calls <= 1
    /\ BeforeConversion => convert_calls = 0 /\ NoOutputFile
    /\ convert_calls = 1 =>
           args.input_exists /\ out_dir_created /\ page_range.exc = "None"
    /\ ~NoOutputFile => convert_calls = 1
    /\ exit = "ValueError" => convert_calls = 0 /\ NoOutputFile

\* A run has ended on an invalid page range.
C8_Witness == exit = "ValueError" /\ pages = <<"5", "-", "1">> /\ convert_calls = 0

WritableShapes == {"bytes", "bytearray", "str", "readable"}

(* C9: _write_pdf returns true and writes the PDF file exactly when the     *)
(* exported value is bytes, a bytearray, a path string or a readable; the   *)
(* summary names the PDF path exactly when it returned true.                *)
C9_PdfWrittenIffShape ==
    pc \in {"print", "done"} =>
        /\ pdf_path # "None" <=> exported_pdf \in WritableShapes
        /\ files["pdf"].written <=> exported_pdf \in WritableShapes
        /\ pc = "done" =>
            /\ printed[3] \in {PdfLine, NoPdfLine}
            /\ printed[3] = PdfLine <=> pdf_path # "None"

\* A readable stream was exported, written and reported.
C9_Witness ==
    /\ pc = "done"
    /\ exported_pdf = "readable"
    /\ files["pdf"] = [written |-> TRUE, content |-> StreamData]
    /\ printed[3] = PdfLine

OptionsSurface ==
    /\ docling.imports
    /\ docling.options_build
    /\ docling.has_ocr_options
    /\ docling.ocr_options_build
    /\ docling.accepts_pipeline_options

(* C10: _build_converter always returns a converter; with OCR disabled it   *)
(* is the default one and no options are built; the requested language is   *)
(* passed only when the options surface is there; when the options cannot   *)
(* be loaded or built, or the converter rejects them, it is the default.    *)
C10_ConverterFallback ==
    converter.exc # "NotCalled" =>
        /\ converter.exc = "None"
        /\ ~args.ocr =>
               converter.pipeline_options = "None" /\ ~converter.options_tried
        /\ converter.ocr_lang # "None" =>
               args.ocr /\ converter.ocr_lang = args.lang /\ OptionsSurface
        /\ \/ ~docling.imports
           \/ ~docling.options_build
           \/ docling.has_ocr_options /\ ~docling.ocr_options_build
           \/ ~docling.accepts_pipeline_options
           => converter.pipeline_options = "None"

\* Options were built and the converter rejected them: the default was built.
C10_Witness ==
    /\ args.ocr /\ docling.imports /\ docling.options_build
    /\ ~docling.accepts_pipeline_options
    /\ converter.exc = "None" /\ converter.pipeline_options = "None"
    /\ converter.options_tried

===========================================================================
